---- MODULE Spec2Model ----
(***************************************************************************)
(* Device allocator of xgboost/parallel-hp-tuning-with-gpus.ipynb: the     *)
(* Objective class keeps one in-flight counter per GPU (gpu_status);       *)
(* every trial (Objective.__call__) picks a GPU with get_next_gpu, trains  *)
(* on it and decrements the counter afterwards.  study.optimize runs the   *)
(* trials on a thread pool (n_jobs) that shares one Objective.             *)
(*                                                                         *)
(* Two granularities are modelled over the same state:                     *)
(*   Spec        every get_next_gpu pass and every decrement is one step   *)
(*   SpecThreads the steps of the interpreter: the scan reads one counter  *)
(*               at a time, += and -= are a read followed by a write, and  *)
(*               a trial may raise in XGBClassifier/fit/score              *)
(*   SpecRelease the decrement of line 140 applied to arbitrary ids        *)
(*   SpecArgs    Spec on an Objective built with any num_gpus argument     *)
(*   SpecLive    Spec on the run of the notebook (2 GPUs, 6 trials), with  *)
(*               fair scheduling                                           *)
(* SpecFlow is the task graph of prefect-dask-executor.ipynb.              *)
(***************************************************************************)
EXTENDS Integers, Sequences, FiniteSets

VARIABLES use_gpus,    \* self.use_gpus
          num_gpus,    \* self.num_gpus
          gpu_status,  \* self.gpu_status, a list indexed 0..num_gpus-1
          pc,          \* position of every trial in __call__
          gpu_id,      \* local gpu_id of __call__ (None while unbound)
          next_gpu,    \* local next_gpu of get_next_gpu
          idx,         \* position of the for loop of _find_gpu
          tmp,         \* value read by the pending += / -=
          iters,       \* passes of the while loop that found no GPU (capped)
          held,        \* increments minus decrements written by the trial
          hist,        \* log of the completed get_next_gpu calls and decrements
          err,         \* exception raised by the last subscript of SpecRelease
          params,      \* params["gpu_id"] of every trial (None while absent)
          incs,        \* results of the mapped task inc of flow 'dask-example'
          decs,        \* results of the mapped task dec
          adds,        \* results of the mapped task add
          total        \* result of the task sum

\* the tasks of prefect-dask-executor.ipynb
flowVars == <<incs, decs, adds, total>>

vars == <<use_gpus, num_gpus, gpu_status, pc, gpu_id, next_gpu, idx, tmp,
          iters, held, hist, err, params, flowVars>>

----------------------------------------------------------------------------
(* Bounds *)

NTrials == 4     \* trials of Spec
NThreads == 3    \* trials of SpecThreads
MaxGpus == 3     \* largest num_gpus argument
MaxIters == 1    \* cap of the iters counter
MaxStat == 2     \* largest counter of the pools drawn by SpecRelease
MaxCalls == 2    \* decrements applied by SpecRelease
FlowN == 4       \* items mapped by the flow (range(100) in the notebook)

----------------------------------------------------------------------------
(* Python values *)

None == <<>>
Some(x) == <<x>>
Val(o) == o[1]

\* len(lst) of a list held as a function on 0..n-1
PyLen(lst) == Cardinality(DOMAIN lst)

\* num_gpus or 1
OrOne(arg) == IF arg = None \/ arg = Some(0) THEN 1 ELSE Val(arg)

\* [0 for _ in range(n)]
Zeros(n) == [g \in 0..(n - 1) |-> 0]

RECURSIVE SumFrom(_, _)
SumFrom(lst, g) == IF g \notin DOMAIN lst THEN 0 ELSE lst[g] + SumFrom(lst, g + 1)

\* sum(self.gpu_status)
SumStatus(lst) == SumFrom(lst, 0)

----------------------------------------------------------------------------
(* Objective._find_gpu: first gpu_id, in index order, with stat <= min_stat *)

RECURSIVE FindFrom(_, _, _)
FindFrom(status, min_stat, g) ==
    IF g \notin DOMAIN status THEN None
    ELSE IF status[g] <= min_stat THEN Some(g)
    ELSE FindFrom(status, min_stat, g + 1)

_find_gpu(status, min_stat) == FindFrom(status, min_stat, 0)

\* a pass that lets a third trial onto a device
WhilePassTwo(status) == _find_gpu(status, 0 + 2)

\* One pass of the while loop of get_next_gpu: min_stat is never reassigned,
\* so every pass calls _find_gpu(min_stat=0 + 1).
WhilePass(status) == _find_gpu(status, 0 + 1)

\* a += that adds the increment twice
IncrementTwice(status, g) == [status EXCEPT ![g] = @ + 2]

\* self.gpu_status[next_gpu] += 1
Increment(status, g) == [status EXCEPT ![g] = @ + 1]

----------------------------------------------------------------------------
(* self.gpu_status[gpu_id] -= 1 with the subscript rules of a Python list:  *)
(* ids -len..-1 count from the end, any other id outside 0..len-1 raises   *)
(* IndexError and leaves the list alone.                                   *)

PyIndex(lst, i) == IF i < 0 THEN PyLen(lst) + i ELSE i

InRange(lst, i) == PyIndex(lst, i) \in DOMAIN lst

\* a release that forgets the -= 1
DecrementSkipped(status, i) ==
    IF InRange(status, i)
    THEN [status |-> status, err |-> "none"]
    ELSE [status |-> status, err |-> "IndexError"]

Decrement(status, i) ==
    IF InRange(status, i)
    THEN [status |-> [status EXCEPT ![PyIndex(status, i)] = @ - 1], err |-> "none"]
    ELSE [status |-> status, err |-> "IndexError"]

----------------------------------------------------------------------------
(* The log of get_next_gpu calls and decrements *)

\* the log of a run that keeps none
NoLog == <<[op |-> "off", id |-> 0, t |-> 0, before |-> <<>>]>>

Log(h, e) == IF h = NoLog THEN h ELSE Append(h, e)

----------------------------------------------------------------------------
(* Initial states *)

\* no task of the flow has run
FlowIdle ==
    /\ incs = [i \in 0..(FlowN - 1) |-> None]
    /\ decs = [i \in 0..(FlowN - 1) |-> None]
    /\ adds = [i \in 0..(FlowN - 1) |-> None]
    /\ total = None

NumGpusArgs == {None} \cup {Some(n) : n \in 0..MaxGpus}

\* every integer in reach, negative ones included
AnyNumGpusArgs == NumGpusArgs \cup {Some(0 - n) : n \in 1..MaxGpus}

InitWith(trials, flags, args) ==
    /\ use_gpus \in flags
    /\ \E arg \in args :
          /\ num_gpus = OrOne(arg)
          /\ gpu_status = Zeros(OrOne(arg))
    /\ pc = [t \in trials |-> "start"]
    /\ gpu_id = [t \in trials |-> None]
    /\ next_gpu = [t \in trials |-> None]
    /\ idx = [t \in trials |-> 0]
    /\ tmp = [t \in trials |-> 0]
    /\ iters = [t \in trials |-> 0]
    /\ held = [t \in trials |-> 0]
    /\ hist \in {<<>>, NoLog}
    /\ err = "none"
    /\ params = [t \in trials |-> None]
    /\ FlowIdle

InitObjective(trials, flags) ==
    /\ InitWith(trials, flags, NumGpusArgs)
    /\ hist = <<>>

Init == InitObjective(1..NTrials, BOOLEAN)

InitArgs ==
    /\ InitWith(1..NThreads, BOOLEAN, AnyNumGpusArgs)
    /\ hist = <<>>

InitThreads == InitObjective(1..NThreads, BOOLEAN)

Trials == DOMAIN pc

Bump(n) == IF n < MaxIters THEN n + 1 ELSE n

----------------------------------------------------------------------------
(* Steps shared by both granularities *)

\* __call__ up to the call of get_next_gpu: the params dict, then the
\* use_gpus test; get_next_gpu starts with next_gpu = None.
Call(t) ==
    /\ pc[t] = "start"
    /\ pc' = [pc EXCEPT ![t] = IF use_gpus THEN "while" ELSE "fit"]
    /\ next_gpu' = [next_gpu EXCEPT ![t] = None]
    /\ UNCHANGED <<params, flowVars, use_gpus, num_gpus, gpu_status, gpu_id, idx, tmp, iters,
                   held, hist, err>>

\* XGBClassifier(**params), bst.fit and bst.score return
FitScore(t) ==
    /\ pc[t] = "fit"
    /\ pc' = [pc EXCEPT ![t] = "release"]
    /\ UNCHANGED <<params, flowVars, use_gpus, num_gpus, gpu_status, gpu_id, next_gpu, idx, tmp,
                   iters, held, hist, err>>

\* XGBClassifier(**params), bst.fit or bst.score raises: the exception
\* leaves __call__, nothing after the raising line runs
Fault(t) ==
    /\ pc[t] = "fit"
    /\ pc' = [pc EXCEPT ![t] = "raised"]
    /\ UNCHANGED <<params, flowVars, use_gpus, num_gpus, gpu_status, gpu_id, next_gpu, idx, tmp,
                   iters, held, hist, err>>

----------------------------------------------------------------------------
(* Spec: one step per pass of get_next_gpu and per decrement *)

GetNextGpu(t) ==
    /\ pc[t] = "while"
    /\ LET r == WhilePass(gpu_status) IN
       IF r = None
       THEN /\ iters' = [iters EXCEPT ![t] = Bump(@)]
            /\ UNCHANGED <<gpu_status, pc, gpu_id, params, next_gpu, held, hist>>
       ELSE /\ gpu_status' = Increment(gpu_status, Val(r))
            /\ next_gpu' = [next_gpu EXCEPT ![t] = r]
            /\ gpu_id' = [gpu_id EXCEPT ![t] = r]
            /\ params' = [params EXCEPT ![t] = r]
            /\ held' = [held EXCEPT ![t] = @ + 1]
            /\ pc' = [pc EXCEPT ![t] = "fit"]
            /\ hist' = Log(hist, [op |-> "acquire", id |-> Val(r), t |-> t,
                                  before |-> gpu_status])
            /\ UNCHANGED iters
    /\ UNCHANGED <<flowVars, use_gpus, num_gpus, idx, tmp, err>>

\* line 140, then return score; gpu_id is unbound when use_gpus is false
Release(t) ==
    /\ pc[t] = "release"
    /\ IF gpu_id[t] = None
       THEN /\ pc' = [pc EXCEPT ![t] = "raised"]
            /\ UNCHANGED <<gpu_status, held, hist>>
       ELSE /\ gpu_status' = Decrement(gpu_status, Val(gpu_id[t])).status
            /\ held' = [held EXCEPT ![t] = @ - 1]
            /\ pc' = [pc EXCEPT ![t] = "done"]
            /\ hist' = Log(hist, [op |-> "release", id |-> Val(gpu_id[t]),
                                  t |-> t, before |-> gpu_status])
    /\ UNCHANGED <<params, flowVars, use_gpus, num_gpus, gpu_id, next_gpu, idx, tmp, iters, err>>

Next ==
    \/ \E t \in Trials : Call(t)
    \/ \E t \in Trials : GetNextGpu(t)
    \/ \E t \in Trials : FitScore(t)
    \/ \E t \in Trials : Release(t)

Spec == Init /\ [][Next]_vars

\* The run of the notebook: Objective(..., use_gpus=True, num_gpus=2) and
\* study.optimize(objective, n_trials=6, n_jobs=6), every thread is
\* scheduled again and again and fit and score return.
LiveGpus == 2
LiveJobs == 6

InitLive ==
    /\ InitWith(1..LiveJobs, {TRUE}, {Some(LiveGpus)})
    /\ hist = NoLog

Step(t) == Call(t) \/ GetNextGpu(t) \/ FitScore(t) \/ Release(t)

Fairness == \A t \in 1..LiveJobs : WF_vars(Step(t))

SpecLive == InitLive /\ [][Next]_vars /\ Fairness

\* the same steps on an Objective built with any num_gpus argument
SpecArgs == InitArgs /\ [][Next]_vars

----------------------------------------------------------------------------
(* SpecThreads: the trials are threads of one interpreter; a thread may be  *)
(* preempted between any two of the steps below.                           *)

\* while(next_gpu is None): enter _find_gpu, or leave the loop
WhileTest(t) ==
    /\ pc[t] = "while"
    /\ IF next_gpu[t] = None
       THEN /\ pc' = [pc EXCEPT ![t] = "find"]
            /\ idx' = [idx EXCEPT ![t] = 0]
       ELSE /\ pc' = [pc EXCEPT ![t] = "incr"]
            /\ UNCHANGED idx
    /\ UNCHANGED <<params, flowVars, use_gpus, num_gpus, gpu_status, gpu_id, next_gpu, tmp, iters,
                   held, hist, err>>

\* a scan that numbers the devices from 1
FindStepFromOne(t) ==
    /\ pc[t] = "find"
    /\ IF idx[t] \notin DOMAIN gpu_status
       THEN /\ next_gpu' = [next_gpu EXCEPT ![t] = None]
            /\ pc' = [pc EXCEPT ![t] = "while"]
            /\ iters' = [iters EXCEPT ![t] = Bump(@)]
            /\ UNCHANGED idx
       ELSE IF gpu_status[idx[t]] <= 0 + 1
       THEN /\ next_gpu' = [next_gpu EXCEPT ![t] = Some(idx[t] + 1)]
            /\ pc' = [pc EXCEPT ![t] = "while"]
            /\ UNCHANGED <<idx, iters>>
       ELSE /\ idx' = [idx EXCEPT ![t] = @ + 1]
            /\ UNCHANGED <<next_gpu, pc, iters>>
    /\ UNCHANGED <<params, flowVars, use_gpus, num_gpus, gpu_status, gpu_id, tmp, held, hist, err>>

\* one iteration of "for gpu_id, stat in enumerate(self.gpu_status)" with
\* min_stat = 1, or the return None after the last one
FindStep(t) ==
    /\ pc[t] = "find"
    /\ IF idx[t] \notin DOMAIN gpu_status
       THEN /\ next_gpu' = [next_gpu EXCEPT ![t] = None]
            /\ pc' = [pc EXCEPT ![t] = "while"]
            /\ iters' = [iters EXCEPT ![t] = Bump(@)]
            /\ UNCHANGED idx
       ELSE IF gpu_status[idx[t]] <= 0 + 1
       THEN /\ next_gpu' = [next_gpu EXCEPT ![t] = Some(idx[t])]
            /\ pc' = [pc EXCEPT ![t] = "while"]
            /\ UNCHANGED <<idx, iters>>
       ELSE /\ idx' = [idx EXCEPT ![t] = @ + 1]
            /\ UNCHANGED <<next_gpu, pc, iters>>
    /\ UNCHANGED <<params, flowVars, use_gpus, num_gpus, gpu_status, gpu_id, tmp, held, hist, err>>

\* self.gpu_status[next_gpu] += 1: the load of the item
IncrRead(t) ==
    /\ pc[t] = "incr"
    /\ tmp' = [tmp EXCEPT ![t] = gpu_status[Val(next_gpu[t])]]
    /\ pc' = [pc EXCEPT ![t] = "incr_write"]
    /\ UNCHANGED <<params, flowVars, use_gpus, num_gpus, gpu_status, gpu_id, next_gpu, idx, iters,
                   held, hist, err>>

\* the store of the item, return next_gpu, then gpu_id = ... and
\* params["gpu_id"] = gpu_id of __call__
IncrWrite(t) ==
    /\ pc[t] = "incr_write"
    /\ gpu_status' = [gpu_status EXCEPT ![Val(next_gpu[t])] = tmp[t] + 1]
    /\ gpu_id' = [gpu_id EXCEPT ![t] = next_gpu[t]]
    /\ params' = [params EXCEPT ![t] = next_gpu[t]]
    /\ held' = [held EXCEPT ![t] = @ + 1]
    /\ pc' = [pc EXCEPT ![t] = "fit"]
    /\ UNCHANGED <<flowVars, use_gpus, num_gpus, next_gpu, idx, tmp, iters, hist, err>>

\* self.gpu_status[gpu_id] -= 1: the load of the item; reading the unbound
\* local gpu_id raises UnboundLocalError
DecrRead(t) ==
    /\ pc[t] = "release"
    /\ IF gpu_id[t] = None
       THEN /\ pc' = [pc EXCEPT ![t] = "raised"]
            /\ UNCHANGED tmp
       ELSE /\ tmp' = [tmp EXCEPT ![t] = gpu_status[Val(gpu_id[t])]]
            /\ pc' = [pc EXCEPT ![t] = "release_write"]
    /\ UNCHANGED <<params, flowVars, use_gpus, num_gpus, gpu_status, gpu_id, next_gpu, idx, iters,
                   held, hist, err>>

\* a decrement through an index that is not the trial's own gpu_id
DecrWriteFirst(t) ==
    /\ pc[t] = "release_write"
    /\ gpu_status' = [gpu_status EXCEPT ![0] = tmp[t] - 1]
    /\ held' = [held EXCEPT ![t] = @ - 1]
    /\ pc' = [pc EXCEPT ![t] = "done"]
    /\ UNCHANGED <<params, flowVars, use_gpus, num_gpus, gpu_id, next_gpu, idx, tmp, iters, hist, err>>

\* the store of the item, then return score
DecrWrite(t) ==
    /\ pc[t] = "release_write"
    /\ gpu_status' = [gpu_status EXCEPT ![Val(gpu_id[t])] = tmp[t] - 1]
    /\ held' = [held EXCEPT ![t] = @ - 1]
    /\ pc' = [pc EXCEPT ![t] = "done"]
    /\ UNCHANGED <<params, flowVars, use_gpus, num_gpus, gpu_id, next_gpu, idx, tmp, iters, hist, err>>

NextThreads ==
    \/ \E t \in Trials : Call(t)
    \/ \E t \in Trials : WhileTest(t)
    \/ \E t \in Trials : FindStep(t)
    \/ \E t \in Trials : IncrRead(t)
    \/ \E t \in Trials : IncrWrite(t)
    \/ \E t \in Trials : FitScore(t)
    \/ \E t \in Trials : Fault(t)
    \/ \E t \in Trials : DecrRead(t)
    \/ \E t \in Trials : DecrWrite(t)

SpecThreads == InitThreads /\ [][NextThreads]_vars

----------------------------------------------------------------------------
(* SpecRelease: line 140 applied to any id on any small pool *)

Ids == (0 - MaxGpus - 1)..(MaxGpus + 1)

InitRelease ==
    /\ use_gpus = TRUE
    /\ num_gpus \in 1..MaxGpus
    /\ gpu_status \in [0..(num_gpus - 1) -> 0..MaxStat]
    /\ pc = << >>
    /\ gpu_id = << >>
    /\ next_gpu = << >>
    /\ idx = << >>
    /\ tmp = << >>
    /\ iters = << >>
    /\ held = << >>
    /\ hist = << >>
    /\ err = "none"
    /\ params = << >>
    /\ FlowIdle

ReleaseId(i) ==
    /\ Len(hist) < MaxCalls
    /\ gpu_status' = Decrement(gpu_status, i).status
    /\ err' = Decrement(gpu_status, i).err
    /\ hist' = Append(hist, [op |-> "release", id |-> i, t |-> 0,
                             before |-> gpu_status])
    /\ UNCHANGED <<params, flowVars, use_gpus, num_gpus, pc, gpu_id, next_gpu, idx, tmp, iters, held>>

NextRelease == \E i \in Ids : ReleaseId(i)

SpecRelease == InitRelease /\ [][NextRelease]_vars

----------------------------------------------------------------------------
(* SpecFlow: flow 'dask-example' of prefect-dask-executor.ipynb.  The      *)
(* executor runs the tasks in any order that respects the edges of the     *)
(* flow: add[i] takes x from inc[i] and y from dec[i], sum takes the list  *)
(* of all add results.                                                     *)

allocVars == <<use_gpus, num_gpus, gpu_status, pc, gpu_id, next_gpu, idx, tmp,
               iters, held, hist, err, params>>

Items == 0..(FlowN - 1)

\* inc(x): return x + 1, mapped over range(FlowN)
RunInc(i) ==
    /\ incs[i] = None
    /\ incs' = [incs EXCEPT ![i] = Some(i + 1)]
    /\ UNCHANGED <<decs, adds, total, allocVars>>

\* dec(x): return x - 1
RunDec(i) ==
    /\ decs[i] = None
    /\ decs' = [decs EXCEPT ![i] = Some(i - 1)]
    /\ UNCHANGED <<incs, adds, total, allocVars>>

\* add(x, y): return x + y with x=incs[i], y=decs[i]
RunAdd(i) ==
    /\ adds[i] = None
    /\ incs[i] # None
    /\ decs[i] # None
    /\ adds' = [adds EXCEPT ![i] = Some(Val(incs[i]) + Val(decs[i]))]
    /\ UNCHANGED <<incs, decs, total, allocVars>>

RECURSIVE SumDone(_, _)
SumDone(arr, i) ==
    IF i \notin DOMAIN arr THEN 0
    ELSE (IF arr[i] = None THEN 0 ELSE Val(arr[i])) + SumDone(arr, i + 1)

\* a sum that does not wait for the whole list
ListSumEarly ==
    /\ total = None
    /\ \E i \in Items : adds[i] # None
    /\ total' = Some(SumDone(adds, 0))
    /\ UNCHANGED <<incs, decs, adds, allocVars>>

\* list_sum(arr): return sum(arr) with arr=adds
ListSum ==
    /\ total = None
    /\ \A i \in Items : adds[i] # None
    /\ total' = Some(SumDone(adds, 0))
    /\ UNCHANGED <<incs, decs, adds, allocVars>>

InitFlow ==
    /\ InitWith({}, {FALSE}, {None})
    /\ hist = <<>>

NextFlow ==
    \/ \E i \in Items : RunInc(i)
    \/ \E i \in Items : RunDec(i)
    \/ \E i \in Items : RunAdd(i)
    \/ ListSum

SpecFlow == InitFlow /\ [][NextFlow]_vars

----------------------------------------------------------------------------
(* Properties *)

\* trials that are inside __call__
Active == {t \in Trials : pc[t] \notin {"start", "done", "raised"}}

\* running trials that came back from get_next_gpu and have not yet
\* finished line 140
Holding == {t \in Trials : pc[t] \in {"fit", "release", "release_write"}
                           /\ gpu_id[t] # None}

Last(h) == h[Len(h)]

C2_AcquireReturnsLeastLoaded ==
    \A k \in 1..Len(hist) :
        (hist[k].op = "acquire" /\ \A g \in DOMAIN hist[k].before : hist[k].before[g] >= 0)
        => /\ \A g \in DOMAIN hist[k].before :
                 hist[k].before[hist[k].id] <= hist[k].before[g]
           /\ \A g \in DOMAIN hist[k].before :
                 hist[k].before[g] = hist[k].before[hist[k].id] => hist[k].id <= g

\* C3: get_next_gpu never waits: no pass of its while loop ends without a
\* device, whatever the load of the pool.
C3_AcquireNeverWaits == \A t \in Trials : iters[t] = 0

\* C4: under every interleaving of the reads and writes of the threads no
\* update of a counter is lost: the counters add up to the increments the
\* trials have written and not yet taken back.
C4_NoLostUpdate ==
    SumStatus(gpu_status) = Cardinality({t \in Trials : held[t] = 1})

\* C5: a trial that has left __call__, by return or by an exception, has
\* taken back every increment it made.
C5_ReleasedOnEveryExit ==
    \A t \in Trials : pc[t] \in {"done", "raised"} => held[t] = 0

\* C6: a decrement of an id whose counter is 0, or of an id outside
\* 0..num_devices-1, raises an error (InvalidRelease; the IndexError of the
\* list is taken for it) and leaves every counter as it was.
C6_InvalidReleaseRejected ==
    (/\ Len(hist) > 0
     /\ \/ Last(hist).id \notin DOMAIN Last(hist).before
        \/ Last(hist).before[Last(hist).id] = 0)
    => /\ err # "none"
       /\ gpu_status = Last(hist).before

\* C7: a get_next_gpu call directly followed by the decrement of the id it
\* returned leaves the whole counter array as it was before the call.
C7_AcquireReleaseRoundTrip ==
    (/\ Len(hist) >= 2
     /\ hist[Len(hist) - 1].op = "acquire"
     /\ Last(hist).op = "release"
     /\ Last(hist).id = hist[Len(hist) - 1].id)
    => gpu_status = hist[Len(hist) - 1].before

\* the round trip happened on a pool that was in use
C7_Witness ==
    /\ Len(hist) >= 2
    /\ hist[Len(hist) - 1].op = "acquire"
    /\ Last(hist).op = "release"
    /\ Last(hist).id = hist[Len(hist) - 1].id
    /\ \E g \in DOMAIN gpu_status : hist[Len(hist) - 1].before[g] > 0

NoRelease == \A k \in 1..Len(hist) : hist[k].op = "acquire"

\* C8: on a pool of one device, as long as nothing is released, every
\* get_next_gpu call returns device 0 and the counter equals the number of
\* calls made.
C8_SingleDeviceCountsCalls ==
    (PyLen(gpu_status) = 1 /\ NoRelease)
    => /\ \A t \in Trials : iters[t] = 0
       /\ \A t \in Trials : gpu_id[t] # None => gpu_id[t] = Some(0)
       /\ gpu_status[0] = Cardinality({t \in Trials : gpu_id[t] # None})

\* C9: on a fresh pool of two devices the first three get_next_gpu calls,
\* with no decrement in between, return 0, 1, 0.
C9_ThreeAcquiresAlternate ==
    (/\ PyLen(gpu_status) = 2
     /\ Len(hist) >= 3
     /\ \A k \in 1..3 : hist[k].op = "acquire")
    => <<hist[1].id, hist[2].id, hist[3].id>> = <<0, 1, 0>>

\* get_next_gpu three times, then the decrement of the id of the first call
TraceAAAR ==
    /\ PyLen(gpu_status) = 2
    /\ Len(hist) = 4
    /\ \A k \in 1..3 : hist[k].op = "acquire"
    /\ hist[4].op = "release"
    /\ hist[4].id = hist[1].id

\* C10, as stated: after that trace on a fresh pool of two devices the
\* counters are [0, 1].
C10_TraceEndsAt01 == TraceAAAR => gpu_status = [g \in 0..1 |-> g]

\* C10, amended: after that trace the counters are [1, 1].
C10_TraceEndsAt11 == TraceAAAR => gpu_status = [g \in 0..1 |-> 1]

C10_Witness == TraceAAAR

\* C11: under every interleaving of the threads, the device chosen by
\* get_next_gpu is an index d with 0 <= d < num_gpus, it is the value the
\* call returns into gpu_id, and params["gpu_id"] holds that same d.
C11_ReturnedIdInRange ==
    \A t \in Trials :
        /\ next_gpu[t] # None =>
              /\ Val(next_gpu[t]) >= 0
              /\ Val(next_gpu[t]) < num_gpus
              /\ Val(next_gpu[t]) \in DOMAIN gpu_status
        /\ gpu_id[t] # None =>
              /\ gpu_id[t] = next_gpu[t]
              /\ params[t] = gpu_id[t]
        /\ params[t] # None => gpu_id[t] # None

\* a trial trains on the last device of a pool of several
C11_Witness ==
    \E t \in Trials :
        /\ pc[t] = "fit"
        /\ num_gpus > 1
        /\ gpu_id[t] = Some(num_gpus - 1)
        /\ params[t] = Some(num_gpus - 1)

\* C12: in every interleaving, faults of other trials included, a trial
\* that decrements holds exactly one lease of its own: the index it writes
\* is the device its own get_next_gpu call returned, no other counter is
\* touched, and it has not decremented before.
C12_ReleaseOwnLeaseOnce ==
    [][\A t \in Trials :
          held'[t] < held[t]
          => /\ held[t] = 1
             /\ held'[t] = 0
             /\ gpu_id[t] # None
             /\ gpu_id[t] = next_gpu[t]
             /\ \A g \in DOMAIN gpu_status :
                   g # Val(gpu_id[t]) => gpu_status'[g] = gpu_status[g]]_vars

\* a trial gave back a device other than device 0 while another trial had
\* raised with its device still counted
C12_Witness ==
    \E t, u \in Trials :
        /\ pc[t] = "done"
        /\ gpu_id[t] # None
        /\ gpu_id[t] # Some(0)
        /\ pc[u] = "raised"
        /\ held[u] = 1

\* C13: whatever num_gpus argument the Objective is built with (None, 0,
\* positive or negative), gpu_status has at least one device, the counters
\* start at 0 and a get_next_gpu call on the fresh pool returns a device.
C13_PoolNeverEmpty ==
    /\ PyLen(gpu_status) >= 1
    /\ num_gpus >= 1
    /\ hist = <<>> =>
          /\ \A g \in DOMAIN gpu_status : gpu_status[g] = 0
          /\ \A t \in Trials : iters[t] = 0

\* the step is trial t coming back from get_next_gpu (in SpecThreads: the
\* store of its += 1)
AcquireStep(t) == pc[t] \in {"while", "incr_write"} /\ pc'[t] = "fit"

\* the step is line 140 of trial t (in SpecThreads: the store of its -= 1)
ReleaseStep(t) == pc[t] \in {"release", "release_write"} /\ pc'[t] = "done"

\* C14: a get_next_gpu call that returns d adds exactly 1 to counter d, the
\* decrement of d takes exactly 1 from counter d, both leave every other
\* counter and the number of devices alone, and no other step of a trial
\* changes a counter.
C14_FrameCondition ==
    [][/\ DOMAIN gpu_status' = DOMAIN gpu_status
       /\ num_gpus' = num_gpus
       /\ \A t \in Trials :
             AcquireStep(t) =>
                gpu_status' = [gpu_status EXCEPT ![Val(gpu_id'[t])] = @ + 1]
       /\ \A t \in Trials :
             ReleaseStep(t) =>
                gpu_status' = [gpu_status EXCEPT ![Val(gpu_id[t])] = @ - 1]
       /\ (\A t \in Trials : ~AcquireStep(t) /\ ~ReleaseStep(t))
             => gpu_status' = gpu_status]_vars

\* C17: with num_gpus=2 and six parallel trials, fair scheduling and no
\* fault, every trial is started, comes back from get_next_gpu and returns:
\* the run reaches the state in which all six trials are done.
C17_EveryTrialCompletes == <>(\A t \in 1..LiveJobs : pc[t] = "done")

\* four trials hold the two devices and the two others have been through
\* the while loop without finding one
C17_Witness ==
    /\ Cardinality(Holding) = 2 * LiveGpus
    /\ Cardinality({t \in Trials : pc[t] = "while" /\ iters[t] > 0}) = 2

\* C15: as long as nothing is given back, the counters of any two devices
\* differ by at most 1 (the trials are spread over the devices).
C15_LoadSpread ==
    NoRelease =>
        \A g, h \in DOMAIN gpu_status : gpu_status[g] - gpu_status[h] <= 1

\* C16: when every get_next_gpu pass and every decrement is one step, no
\* counter exceeds 2 and at most 2 * num_gpus trials hold a device, however
\* many trials run.
C16_AtMostTwoPerDevice ==
    /\ \A g \in DOMAIN gpu_status : gpu_status[g] <= 2
    /\ Cardinality(Holding) <= 2 * num_gpus

\* every device carries two trials and further trials have been through
\* the while loop without finding one
C16_Witness ==
    /\ \A g \in DOMAIN gpu_status : gpu_status[g] = 2
    /\ Cardinality(Holding) = 2 * num_gpus
    /\ \E t \in Trials : pc[t] = "while" /\ iters[t] > 0

\* C18: on an Objective with use_gpus=False a trial makes no get_next_gpu
\* call and no decrement, returns its score, and leaves the counters alone.
C18_NoGpuTrialReturns ==
    ~use_gpus =>
        /\ \A t \in Trials : pc[t] # "raised"
        /\ \A t \in Trials : gpu_id[t] = None
        /\ \A g \in DOMAIN gpu_status : gpu_status[g] = 0

\* C19: in every order of the mapped tasks, add[i] has run only if inc[i]
\* and dec[i] have, and got i+1 and i-1 from them; sum has run only if
\* every add has; and the total is the sum of 2*i over the items (9900 for
\* range(100)).
C19_FlowTotalOrderIndependent ==
    /\ \A i \in Items :
          adds[i] # None =>
             /\ incs[i] = Some(i + 1)
             /\ decs[i] = Some(i - 1)
             /\ adds[i] = Some(2 * i)
    /\ total # None =>
          /\ \A i \in Items : adds[i] # None
          /\ total = Some(FlowN * (FlowN - 1))

\* the flow has run to its end
C19_Witness == total # None

====
